---- MODULE Spec2Model ----
(***************************************************************************)
(* State-machine model of binance/websockets.py:                           *)
(*   ReconnectingWebsocket  - one stream, its receive task and reconnects  *)
(*   BinanceSocketManager   - the registry of streams (_conns) and the     *)
(*                            listen-key backed account sockets            *)
(* asyncio is cooperative: a coroutine runs atomically from one await that *)
(* really suspends to the next.  The awaits that suspend are ws.connect,   *)
(* socket.recv (under wait_for), socket.ping, the client's                 *)
(* *_get_listen_key and *_stream_close calls, and the keepalive timer.     *)
(* CancelledError is a BaseException (Python >= 3.8), so "except           *)
(* Exception" does not catch it.                                           *)
(***************************************************************************)
EXTENDS Integers, Sequences, FiniteSets, TLC

(***************************************************************************)
(* Bounds of the model                                                     *)
(***************************************************************************)
MaxConns == 2       \* ReconnectingWebsocket objects built in a run
MaxFails == 2       \* transport failures injected in a run of SpecReg, SpecConn
MaxFrames == 3      \* frames delivered in a run
MaxPings == 1       \* idle timeouts in a run
MaxStray == 1       \* pending timer handles no longer referenced by _timers
MaxKeepalive == 1   \* keepalive coroutines in flight at once
MaxAttempts == 6    \* largest attempt count handed to _get_reconnect_wait
RandomSteps == 8    \* random() draws one of 0/RandomSteps .. (RandomSteps-1)/RandomSteps

(***************************************************************************)
(* Program constants                                                       *)
(***************************************************************************)
MAX_RECONNECTS == 1000
MAX_RECONNECT_SECONDS == 1
KEY_LEN == 60

(***************************************************************************)
(* A string is the sequence of its runs: [ch, n] stands for n times the    *)
(* character ch, and neighbouring runs differ in ch, so that equal strings *)
(* are equal sequences.  Listen keys are KEY_LEN characters long.          *)
(***************************************************************************)
Rep(ch, n) == <<[ch |-> ch, n |-> n]>>

RECURSIVE StrLen(_)
StrLen(s) == IF s = <<>> THEN 0 ELSE Head(s).n + StrLen(Tail(s))

\* s[:k]
RECURSIVE Slice(_, _)
Slice(s, k) ==
    IF s = <<>> \/ k = 0 THEN <<>>
    ELSE IF Head(s).n <= k THEN <<Head(s)>> \o Slice(Tail(s), k - Head(s).n)
    ELSE <<[ch |-> Head(s).ch, n |-> k]>>

None == <<>>
False == Rep("False", 1)
Raised == Rep("raise", 1)
TokA == Rep("a", KEY_LEN)
TokB == Rep("b", KEY_LEN)
ListenKeys == {TokA, TokB}
PathTrade == Rep("t", 1)
PathMulti == TokA \o Rep("x", 1)
Paths == {PathTrade, PathMulti}
ConnKeys == Paths \cup ListenKeys
Callbacks == {"h1"}
Domains == {"STREAM_URL", "FSTREAM_URL", "DSTREAM_URL"}
TypeOrder == <<"user", "margin", "isolated", "perp", "delivery">>
SocketTypes == {TypeOrder[i] : i \in 1..Len(TypeOrder)}
AccountTypes == {"user"}
StreamTypes == {"user"}
BookTickerTypes == {"user", "perp"}
TokC == Rep("c", KEY_LEN)
ClassKeys == {TokA, TokB, TokC}
ClassTypes == {"user", "margin"}

\* the listen keys stream_get_listen_key (user) and
\* margin_stream_get_listen_key (margin) hand out: no key is given to both
KeysOf(socket_type) == IF socket_type = "user" THEN {TokA, TokC} ELSE {TokB}
ConnIds == 1..MaxConns

socket_type_url_mapping(socket_type) ==
    CASE socket_type = "perp" -> "FSTREAM_URL"
      [] socket_type = "delivery" -> "DSTREAM_URL"
      [] OTHER -> "STREAM_URL"

\* the test of stop_socket with conn_key == listen_key in the place of the
\* comparison of the first 60 characters
HasPrefix_exact(conn_key, listen_key) == conn_key = listen_key

\* conn_key[:60] == listen_key, guarded by len(conn_key) >= 60
HasPrefix(conn_key, listen_key) ==
    /\ StrLen(conn_key) >= KEY_LEN
    /\ Slice(conn_key, KEY_LEN) = listen_key

\* json.loads on the frames of the model: "1" and "2" are JSON texts, "{" is not.
Frames == {"1", "2", "{"}
json_loads(evt) ==
    CASE evt = "1" -> [ok |-> TRUE, obj |-> 1]
      [] evt = "2" -> [ok |-> TRUE, obj |-> 2]
      [] OTHER -> [ok |-> FALSE, obj |-> 0]

\* what the loop of _run hands to the callback for the frames it received:
\* one json.loads and one run_coroutine_threadsafe per frame, in turn
RECURSIVE Decoded(_)
Decoded(frames) ==
    IF frames = <<>> THEN <<>>
    ELSE (IF json_loads(Head(frames)).ok THEN <<json_loads(Head(frames)).obj>>
          ELSE <<>>) \o Decoded(Tail(frames))

(***************************************************************************)
(* ReconnectingWebsocket                                                   *)
(*   pc          where the task in _conn is: "connecting" (in ws.connect), *)
(*               "recv" (in wait_for(recv)), "ping" (in socket.ping),      *)
(*               "done" (the task has ended)                               *)
(*   must_cancel Task.cancel() was requested and is not yet delivered      *)
(*   socket      _socket is not None                                       *)
(* History fields: cancelled (cancel() was called on the object), fails    *)
(* (transport failures in a row, with no frame in between), opens          *)
(* (transports opened), pings, frames (received), handled (objects handed  *)
(* to the callback).                                                       *)
(* Counts of the object's _run tasks: loops (tasks made by _connect that   *)
(* are in ws.connect or in the receive loop), transports (tasks inside the *)
(* body of their "async with", each holding the transport it opened).      *)
(***************************************************************************)
Fresh ==
    [used |-> FALSE, path |-> None, ws_domain |-> "none", coro |-> "none",
     reconnects |-> 0, socket |-> FALSE, pc |-> "done", must_cancel |-> FALSE,
     cancelled |-> FALSE, fails |-> 0, opens |-> 0, pings |-> 0, frames |-> <<>>,
     handled |-> <<>>, loops |-> 0, transports |-> 0]

\* min(a, b)
Min(a, b) == IF a <= b THEN a ELSE b

\* round(p / q) for p >= 0, q > 0: Python rounds a tie to the even neighbour
round(p, q) ==
    LET fl == p \div q
        rem == p % q
    IN IF 2 * rem < q THEN fl
       ELSE IF 2 * rem > q THEN fl + 1
       ELSE IF fl % 2 = 0 THEN fl ELSE fl + 1

\* _get_reconnect_wait without the min(): the jitter spans 2 ** attempts - 1
get_reconnect_wait_uncapped(attempts, r) ==
    round(r * (2 ^ attempts - 1) + RandomSteps, RandomSteps)

\* _get_reconnect_wait(attempts) when random() returns r / RandomSteps:
\* round(random() * min(MAX_RECONNECT_SECONDS, 2 ** attempts - 1) + 1)
get_reconnect_wait(attempts, r) ==
    LET expo == 2 ^ attempts IN
    round(r * Min(MAX_RECONNECT_SECONDS, expo - 1) + RandomSteps, RandomSteps)

\* __init__ and _connect: the object is built and its _run task scheduled
ReconnectingWebsocket(ws_domain, path, coro) ==
    [Fresh EXCEPT !.used = TRUE, !.path = path, !.ws_domain = ws_domain,
                  !.coro = coro, !.pc = "connecting", !.loops = 1]

\* _reconnect_sync called by a task that goes on in its receive loop and
\* keeps its transport (a reconnect asked for from inside the loop, with no
\* exception taking the task out of it)
reconnect_sync_keeps_loop(w) ==
    [w EXCEPT !.socket = FALSE,
              !.must_cancel = FALSE,
              !.reconnects = @ + 1,
              !.loops = IF w.reconnects + 1 < MAX_RECONNECTS THEN @ + 1 ELSE @,
              !.pc = IF w.reconnects + 1 < MAX_RECONNECTS THEN "connecting"
                     ELSE "done"]

\* _reconnect_sync, called from inside the running task: the task cancels
\* itself, and below the ceiling _connect() schedules a new task.  The
\* caller is in an except clause of lines 60-67: the exception took it out of
\* the receive loop, and the call is the last statement of the "async with"
\* body, which the task leaves with no await in between.
reconnect_sync(w) ==
    [w EXCEPT !.socket = FALSE,
              !.must_cancel = FALSE,
              !.reconnects = @ + 1,
              !.transports = @ - 1,
              !.loops = IF w.reconnects + 1 < MAX_RECONNECTS THEN @ ELSE @ - 1,
              !.pc = IF w.reconnects + 1 < MAX_RECONNECTS THEN "connecting"
                     ELSE "done"]

\* send_ping: awaits socket.ping() only when _socket is set
send_ping(w) ==
    IF w.socket THEN [w EXCEPT !.pc = "ping", !.pings = @ + 1] ELSE w

\* The loop body after send_ping returned without suspending: the next
\* self._socket.recv() raises AttributeError on None, "except Exception"
\* takes it and calls _reconnect_sync.
loop_again(w) ==
    IF w.pc = "ping" THEN w
    ELSE IF w.socket THEN [w EXCEPT !.pc = "recv"]
    ELSE reconnect_sync(w)

\* cancel(): self._conn.cancel(); self._socket = None.  A task still inside
\* ws.connect ends with the CancelledError; a task inside the try block gets
\* it thrown at its await.
cancel(w) ==
    [w EXCEPT !.socket = FALSE,
              !.cancelled = TRUE,
              !.must_cancel = (w.pc \in {"recv", "ping"}),
              !.loops = IF w.pc = "connecting" THEN @ - 1 ELSE @,
              !.pc = IF w.pc = "connecting" THEN "done" ELSE w.pc]

\* The CancelledError reaches the task: in wait_for(recv) line 50 catches it
\* and pings; in the ping of line 49 it leaves _run.
on_cancelled(w) ==
    IF w.pc = "recv" THEN loop_again(send_ping([w EXCEPT !.must_cancel = FALSE]))
    ELSE [w EXCEPT !.pc = "done", !.must_cancel = FALSE,
                   !.loops = @ - 1, !.transports = @ - 1]

\* on_frame without the "except ValueError" of line 56: the decode error
\* reaches "except Exception" and the stream reconnects
on_frame_raises(w, evt) ==
    LET d == json_loads(evt) IN
    IF d.ok
    THEN [w EXCEPT !.frames = Append(@, evt), !.fails = 0,
                   !.handled = Append(@, d.obj)]
    ELSE reconnect_sync([w EXCEPT !.frames = Append(@, evt)])

\* on_frame with the decoded objects handed over last in, first out
on_frame_lifo(w, evt) ==
    LET d == json_loads(evt) IN
    [w EXCEPT !.frames = Append(@, evt),
              !.fails = 0,
              !.handled = IF d.ok THEN <<d.obj>> \o @ ELSE @]

\* a frame arrived: json.loads, then run_coroutine_threadsafe(self._coro(obj))
on_frame(w, evt) ==
    LET d == json_loads(evt) IN
    [w EXCEPT !.frames = Append(@, evt),
              !.fails = 0,
              !.handled = IF d.ok THEN Append(@, d.obj) ELSE @]

\* on_timeout with the timeout treated as a failure of the transport
on_timeout_reconnects(w) == reconnect_sync(w)

\* asyncio.TimeoutError from wait_for: send_ping
on_timeout(w) == loop_again(send_ping(w))

\* ws.connect succeeded
on_open(w) ==
    [w EXCEPT !.socket = TRUE, !.reconnects = 0, !.pc = "recv",
              !.opens = @ + 1, !.transports = @ + 1]

\* ws.connect raised: the exception leaves _run, outside its try block
on_open_error(w) ==
    [w EXCEPT !.pc = "done", !.fails = @ + 1, !.loops = @ - 1]

\* ConnectionClosed (or another exception) inside the try block
on_closed(w) == reconnect_sync([w EXCEPT !.fails = @ + 1])

Open(w) == w.used /\ w.pc \in {"recv", "ping"} /\ ~w.must_cancel

(***************************************************************************)
(* BinanceSocketManager.  The operators below work on a bundle m of the    *)
(* manager's fields:                                                       *)
(*   conns             _conns, a dict in insertion order: a sequence of    *)
(*                     [key, id], id naming the ReconnectingWebsocket      *)
(*   listen_keys       _listen_keys, per socket type a key or None         *)
(*   timers            _timers, per socket type "None", a pending          *)
(*                     call_later handle ("armed" when a start of the      *)
(*                     account socket made it, "rearmed" when a keepalive  *)
(*                     with an unchanged key made it) or "spent" (a handle *)
(*                     that fired)                                         *)
(*   stray             pending call_later handles _timers no longer holds  *)
(*   account_callbacks _account_callbacks                                  *)
(*   ws                the ReconnectingWebsocket objects                   *)
(*   ok                FALSE when the model ran out of objects             *)
(***************************************************************************)
Keys(conns) == {conns[i].key : i \in 1..Len(conns)}
Lookup(conns, key) == (CHOOSE i \in 1..Len(conns) : conns[i].key = key)
IdOf(conns, key) == conns[Lookup(conns, key)].id
Ids(conns) == {conns[i].id : i \in 1..Len(conns)}

\* del self._conns[key]
Del(conns, key) ==
    LET i == Lookup(conns, key) IN
    SubSeq(conns, 1, i - 1) \o SubSeq(conns, i + 1, Len(conns))

\* the objects not yet built
FreeIds(m) == {i \in ConnIds : ~m.ws[i].used}

\* self._conns[path] = ReconnectingWebsocket(...)
Register(m, ws_domain, path, coro) ==
    IF FreeIds(m) = {} THEN [m EXCEPT !.ok = FALSE]
    ELSE LET i == CHOOSE j \in FreeIds(m) : \A k \in FreeIds(m) : j <= k IN
         [m EXCEPT !.conns = Append(@, [key |-> path, id |-> i]),
                   !.ws[i] = ReconnectingWebsocket(ws_domain, path, coro)]

\* _start_socket without its "if path in self._conns" test: the assignment
\* replaces the object the dict holds under path
start_socket_overwrite(m, path, coro, socket_type) ==
    IF path \in Keys(m.conns)
    THEN [m |-> IF FreeIds(m) = {} THEN [m EXCEPT !.ok = FALSE]
                ELSE LET i == CHOOSE j \in FreeIds(m) : \A k \in FreeIds(m) : j <= k
                     IN [m EXCEPT !.conns[Lookup(m.conns, path)].id = i,
                                  !.ws[i] = ReconnectingWebsocket(
                                      socket_type_url_mapping(socket_type),
                                      path, coro)],
          ret |-> path]
    ELSE [m |-> Register(m, socket_type_url_mapping(socket_type), path, coro),
          ret |-> path]

\* _start_socket
start_socket(m, path, coro, socket_type) ==
    IF path \in Keys(m.conns) THEN [m |-> m, ret |-> False]
    ELSE [m |-> Register(m, socket_type_url_mapping(socket_type), path, coro),
          ret |-> path]

\* start_arbitrary_socket
start_arbitrary_socket(m, ws_domain, path, coro) ==
    IF path \in Keys(m.conns) THEN [m |-> m, ret |-> False]
    ELSE [m |-> Register(m, ws_domain, path, coro), ret |-> path]

\* whether a call that took the bundle from m to m2 registered a new object
\* under path
Created(m, m2, path) ==
    path \notin Keys(m.conns) /\ path \in Keys(m2.conns)

\* start_trade_socket and the other public stream starters: the result of
\* _start_socket is dropped and the path returned
start_stream_socket(m, path, coro, socket_type) ==
    [m |-> start_socket(m, path, coro, socket_type).m, ret |-> path]

\* a call_later handle that has neither fired nor been cancelled
Pending == {"armed", "rearmed"}

\* _start_socket_timer: the handle _timers held is overwritten, not cancelled
start_socket_timer(m, socket_type) ==
    [m EXCEPT !.timers[socket_type] = "armed",
              !.stray[socket_type] =
                  IF m.timers[socket_type] \in Pending THEN @ + 1 ELSE @]

\* _stop_account_socket up to its await of *_stream_close
stop_account_socket_begin(m, socket_type) ==
    [m EXCEPT !.timers[socket_type] = "None"]

\* _stop_account_socket with "for k in self._listen_keys: self._listen_keys[k]
\* = None" as its last statement: the keys of all socket types are dropped
stop_account_socket_clears_all(m, socket_type) ==
    [m EXCEPT !.listen_keys = [t \in SocketTypes |-> None]]

\* _stop_account_socket after *_stream_close returned
stop_account_socket_end(m, socket_type) ==
    [m EXCEPT !.listen_keys[socket_type] = None]

(***************************************************************************)
(* A coroutine of the manager is a frame:                                  *)
(*   op   "start" (start_user_socket, start_margin_socket, ...),           *)
(*        "keepalive" (_keepalive_account_socket._run), "stop"             *)
(*        (stop_socket), "close" (close)                                   *)
(*   pc   "idle", "acquire" (awaiting *_get_listen_key), "release"         *)
(*        (awaiting *_stream_close)                                        *)
(* with the locals it holds across the await.  Each operator runs a frame  *)
(* to its next await and yields [m, f, ret]: the bundle, the frame (Idle   *)
(* when the coroutine returned) and the value returned.                    *)
(***************************************************************************)
Idle ==
    [op |-> "none", pc |-> "idle", socket_type |-> "none", coro |-> "none",
     listen_key |-> None, conn_key |-> None, idx |-> 0, tok |-> None,
     rest |-> <<>>]

\* _start_account_socket after _check_account_socket_open
start_account_tail(m, f) ==
    LET m1 == [m EXCEPT !.listen_keys[f.socket_type] = f.listen_key,
                        !.account_callbacks[f.socket_type] = f.coro]
        r == start_socket(m1, f.listen_key, f.coro, f.socket_type)
    IN [m |-> IF r.ret # False THEN start_socket_timer(r.m, f.socket_type)
              ELSE r.m,
        f |-> Idle,
        ret |-> r.ret]

RECURSIVE stop_loop(_, _, _)
RECURSIVE close_loop(_, _)

\* what follows a stop_socket that returned, in the coroutine that called it
after_stop(m, f) ==
    CASE f.op = "stop" -> [m |-> m, f |-> Idle, ret |-> None]
      [] f.op = "close" -> close_loop(m, f)
      [] OTHER -> start_account_tail(m, f)

\* stop_socket's loop "for key in self._listen_keys" from position i on
stop_loop(m, f, i) ==
    IF i > Len(TypeOrder) THEN after_stop(m, f)
    ELSE LET k == TypeOrder[i] IN
         IF m.listen_keys[k] # None /\ HasPrefix(f.conn_key, m.listen_keys[k])
         THEN [m |-> stop_account_socket_begin(m, k),
               f |-> [f EXCEPT !.pc = "release", !.idx = i,
                               !.tok = m.listen_keys[k]],
               ret |-> None]
         ELSE stop_loop(m, f, i + 1)

\* stop_socket without its "if conn_key not in self._conns: return": a key
\* that is not registered still goes through the loop over the listen keys
stop_socket_unchecked(m, f) ==
    IF f.conn_key \notin Keys(m.conns) THEN stop_loop(m, f, 1)
    ELSE LET i == IdOf(m.conns, f.conn_key)
             m1 == [m EXCEPT !.ws[i] = cancel(@),
                             !.conns = Del(@, f.conn_key)]
         IN stop_loop(m1, f, 1)

\* stop_socket(f.conn_key) called from frame f
stop_socket(m, f) ==
    IF f.conn_key \notin Keys(m.conns) THEN after_stop(m, f)
    ELSE LET i == IdOf(m.conns, f.conn_key)
             m1 == [m EXCEPT !.ws[i] = cancel(@),
                             !.conns = Del(@, f.conn_key)]
         IN stop_loop(m1, f, 1)

\* close: "for key in keys: await self.stop_socket(key)"; f.rest is what is
\* left of the key set in the order the iteration takes it
close_loop(m, f) ==
    IF f.rest = <<>> THEN [m |-> m, f |-> Idle, ret |-> None]
    ELSE stop_socket(m, [f EXCEPT !.conn_key = Head(f.rest),
                                  !.rest = Tail(f.rest)])

\* _check_account_socket_open: the first registered key with the prefix
FirstWithPrefix(conns, listen_key) ==
    LET hits == {i \in 1..Len(conns) : HasPrefix(conns[i].key, listen_key)}
    IN IF hits = {} THEN 0
       ELSE CHOOSE i \in hits : \A j \in hits : i <= j

\* _start_account_socket
start_account_socket(m, f) ==
    LET i == IF f.listen_key = None THEN 0
             ELSE FirstWithPrefix(m.conns, f.listen_key)
    IN IF i = 0 THEN start_account_tail(m, f)
       ELSE stop_socket(m, [f EXCEPT !.conn_key = m.conns[i].key])

\* _keepalive_account_socket._run without its comparison of the keys: every
\* renewal goes through _start_account_socket
keepalive_account_socket_restart(m, f) ==
    start_account_socket(m, [f EXCEPT !.coro = m.account_callbacks[f.socket_type]])

\* _keepalive_account_socket._run after *_get_listen_key returned
keepalive_account_socket(m, f) ==
    LET callback == m.account_callbacks[f.socket_type] IN
    IF f.listen_key # m.listen_keys[f.socket_type]
    THEN start_account_socket(m, [f EXCEPT !.coro = callback])
    ELSE [m |-> [start_socket_timer(m, f.socket_type)
                    EXCEPT !.timers[f.socket_type] = "rearmed"],
          f |-> Idle, ret |-> None]

\* a coroutine resumes after *_stream_close returned
after_release(m, f) ==
    stop_loop(stop_account_socket_end(m, TypeOrder[f.idx]), f, f.idx + 1)

\* start_user_socket (and its siblings) with a try/except around the await of
\* *_get_listen_key that goes on with no key
client_error_swallowed(m, f) ==
    IF f.op = "start" /\ f.pc = "acquire"
    THEN start_account_socket(m, [f EXCEPT !.listen_key = None])
    ELSE [m |-> m, f |-> Idle, ret |-> Raised]

\* the awaited client call raised: no coroutine on the stack catches the
\* exception (start_*_socket, _keepalive_account_socket._run, stop_socket,
\* _stop_account_socket, _check_account_socket_open and close have no
\* try), so the coroutine ends there and the manager's fields stay as the
\* code before the await left them
client_error(m, f) == [m |-> m, f |-> Idle, ret |-> Raised]

(***************************************************************************)
(* State                                                                   *)
(*   procs[0] is the coroutine of the caller (one call awaited at a time), *)
(*   procs[1..MaxKeepalive] the keepalive coroutines spawned by timers.    *)
(*   res is what the caller's last completed call did: its name, the value *)
(*   it returned (Raised for an exception) and whether it registered a new *)
(*   ReconnectingWebsocket.                                                *)
(***************************************************************************)
VARIABLES conns, listen_keys, timers, stray, account_callbacks, ws, procs, res

vars == <<conns, listen_keys, timers, stray, account_callbacks, ws, procs, res>>

Caller == 0
ProcIds == 0..MaxKeepalive

M ==
    [conns |-> conns, listen_keys |-> listen_keys, timers |-> timers,
     stray |-> stray, account_callbacks |-> account_callbacks, ws |-> ws,
     ok |-> TRUE]

\* BinanceSocketManager.__init__
Init ==
    /\ conns = <<>>
    /\ listen_keys = [t \in SocketTypes |-> None]
    /\ timers = [t \in SocketTypes |-> "None"]
    /\ stray = [t \in SocketTypes |-> 0]
    /\ account_callbacks = [t \in SocketTypes |-> "none"]
    /\ ws = [c \in ConnIds |-> Fresh]
    /\ procs = [p \in ProcIds |-> Idle]
    /\ res = [op |-> "none", ret |-> None, created |-> FALSE]

\* the manager's fields after a step; the step is possible only within the
\* bounds of the model
Commit(m) ==
    /\ m.ok
    /\ \A t \in SocketTypes : m.stray[t] <= MaxStray
    /\ conns' = m.conns
    /\ listen_keys' = m.listen_keys
    /\ timers' = m.timers
    /\ stray' = m.stray
    /\ account_callbacks' = m.account_callbacks
    /\ ws' = m.ws

\* coroutine p ran to its next await (or to its end) with outcome r
Ran(p, f, r, created) ==
    /\ Commit(r.m)
    /\ procs' = [procs EXCEPT ![p] = r.f]
    /\ res' = IF p = Caller /\ r.f = Idle
              THEN [op |-> f.op, ret |-> r.ret, created |-> created]
              ELSE res

\* the orders in which "for key in set(self._conns.keys())" can run
Orders(S) ==
    {o \in [1..Cardinality(S) -> S] :
        \A i, j \in 1..Cardinality(S) : i # j => o[i] # o[j]}

(***************************************************************************)
(* The caller's calls                                                      *)
(***************************************************************************)
\* start_trade_socket, start_kline_socket, ...: no await suspends
StartStreamSocket(path, coro, socket_type) ==
    /\ procs[Caller] = Idle
    /\ LET r == start_stream_socket(M, path, coro, socket_type) IN
       /\ Commit(r.m)
       /\ res' = [op |-> "start_stream", ret |-> r.ret,
                  created |-> Created(M, r.m, path)]
    /\ UNCHANGED procs

\* start_symbol_book_ticker_socket (socket_type "user", the default) and
\* start_symbol_ticker_futures_socket (socket_type "perp"): both build the
\* path symbol.lower() + "@bookTicker"; res keeps the socket type asked for
StartBookTickerSocket(path, coro, socket_type) ==
    /\ procs[Caller] = Idle
    /\ LET r == start_stream_socket(M, path, coro, socket_type) IN
       /\ Commit(r.m)
       /\ res' = [op |-> "start_book_ticker", ret |-> r.ret,
                  created |-> Created(M, r.m, path),
                  socket_type |-> socket_type]
    /\ UNCHANGED procs

StartArbitrarySocket(ws_domain, path, coro) ==
    /\ procs[Caller] = Idle
    /\ LET r == start_arbitrary_socket(M, ws_domain, path, coro) IN
       /\ Commit(r.m)
       /\ res' = [op |-> "start_arbitrary", ret |-> r.ret,
                  created |-> Created(M, r.m, path)]
    /\ UNCHANGED procs

\* start_user_socket, start_margin_socket, ...: up to *_get_listen_key
StartAccountSocket(socket_type, coro) ==
    /\ procs[Caller] = Idle
    /\ procs' = [procs EXCEPT ![Caller] =
                    [Idle EXCEPT !.op = "start", !.pc = "acquire",
                                 !.socket_type = socket_type, !.coro = coro]]
    /\ UNCHANGED <<conns, listen_keys, timers, stray, account_callbacks, ws, res>>

\* stop_socket(conn_key)
StopSocket(conn_key) ==
    /\ procs[Caller] = Idle
    /\ LET f == [Idle EXCEPT !.op = "stop", !.conn_key = conn_key]
       IN Ran(Caller, f, stop_socket(M, f), FALSE)

\* close()
Close(order) ==
    /\ procs[Caller] = Idle
    /\ LET f == [Idle EXCEPT !.op = "close", !.rest = order]
       IN Ran(Caller, f, close_loop(M, f), FALSE)

(***************************************************************************)
(* The client's answers and the timers                                     *)
(***************************************************************************)
\* *_get_listen_key returned listen_key to coroutine p
GetListenKey(p, listen_key) ==
    /\ procs[p].pc = "acquire"
    /\ LET f == [procs[p] EXCEPT !.listen_key = listen_key]
           r == IF f.op = "start" THEN start_account_socket(M, f)
                ELSE keepalive_account_socket(M, f)
       IN Ran(p, f, r, Created(M, r.m, listen_key))

\* *_get_listen_key or *_stream_close raised: the exception ends coroutine p
ClientError(p) ==
    /\ procs[p].pc \in {"acquire", "release"}
    /\ Ran(p, procs[p], client_error(M, procs[p]), FALSE)

\* *_stream_close returned to coroutine p
StreamClose(p) ==
    /\ procs[p].pc = "release"
    /\ LET r == after_release(M, procs[p])
       IN Ran(p, procs[p], r, Created(M, r.m, procs[p].listen_key))

\* a call_later handle fires: _keepalive_account_socket schedules _run, which
\* runs up to its *_get_listen_key
TimerFire(socket_type, p) ==
    /\ p # Caller
    /\ procs[p] = Idle
    /\ \/ /\ timers[socket_type] \in Pending
          /\ timers' = [timers EXCEPT ![socket_type] = "spent"]
          /\ UNCHANGED stray
       \/ /\ stray[socket_type] > 0
          /\ stray' = [stray EXCEPT ![socket_type] = @ - 1]
          /\ UNCHANGED timers
    /\ procs' = [procs EXCEPT ![p] =
                    [Idle EXCEPT !.op = "keepalive", !.pc = "acquire",
                                 !.socket_type = socket_type]]
    /\ UNCHANGED <<conns, listen_keys, account_callbacks, ws, res>>

(***************************************************************************)
(* The steps of the task of ReconnectingWebsocket c                        *)
(***************************************************************************)
RECURSIVE Total(_, _, _)
Total(w, fld, n) == IF n = 0 THEN 0 ELSE w[n][fld] + Total(w, fld, n - 1)
RECURSIVE TotalFrames(_, _)
TotalFrames(w, n) ==
    IF n = 0 THEN 0 ELSE Len(w[n].frames) + TotalFrames(w, n - 1)

TaskStep(c, w) ==
    /\ ws' = [ws EXCEPT ![c] = w]
    /\ UNCHANGED <<conns, listen_keys, timers, stray, account_callbacks, procs, res>>

Connected(c) ==
    /\ ws[c].used /\ ws[c].pc = "connecting"
    /\ TaskStep(c, on_open(ws[c]))

ConnectError(c, cap) ==
    /\ ws[c].used /\ ws[c].pc = "connecting"
    /\ Total(ws, "fails", MaxConns) < cap
    /\ TaskStep(c, on_open_error(ws[c]))

Frame(c, evt) ==
    /\ ws[c].used /\ ws[c].pc = "recv" /\ ~ws[c].must_cancel
    /\ TotalFrames(ws, MaxConns) < MaxFrames
    /\ TaskStep(c, on_frame(ws[c], evt))

Timeout(c) ==
    /\ ws[c].used /\ ws[c].pc = "recv" /\ ~ws[c].must_cancel
    /\ Total(ws, "pings", MaxConns) < MaxPings
    /\ TaskStep(c, on_timeout(ws[c]))

Pong(c) ==
    /\ ws[c].used /\ ws[c].pc = "ping" /\ ~ws[c].must_cancel
    /\ TaskStep(c, loop_again([ws[c] EXCEPT !.pc = "recv"]))

Closed(c, cap) ==
    /\ ws[c].used /\ ws[c].pc \in {"recv", "ping"} /\ ~ws[c].must_cancel
    /\ Total(ws, "fails", MaxConns) < cap
    /\ TaskStep(c, on_closed(ws[c]))

Cancelled(c) ==
    /\ ws[c].used /\ ws[c].must_cancel
    /\ TaskStep(c, on_cancelled(ws[c]))

(***************************************************************************)
(* Specifications                                                          *)
(***************************************************************************)
\* the manager with its account sockets, over transports that do not fail
Next ==
    \/ \E coro \in Callbacks : StartArbitrarySocket("STREAM_URL", PathMulti, coro)
    \/ \E t \in AccountTypes, coro \in Callbacks : StartAccountSocket(t, coro)
    \/ \E k \in ListenKeys \cup {PathMulti} : StopSocket(k)
    \/ \E o \in Orders(Keys(conns)) : Close(o)
    \/ \E p \in ProcIds, k \in ListenKeys : GetListenKey(p, k)
    \/ \E p \in ProcIds : ClientError(p)
    \/ \E p \in ProcIds : StreamClose(p)
    \/ \E t \in AccountTypes, p \in ProcIds : TimerFire(t, p)
    \/ \E c \in ConnIds : Connected(c)
    \/ \E c \in ConnIds : Cancelled(c)

Spec == Init /\ [][Next]_vars

\* the registry of plain streams; the streams open, fail and reconnect
NextReg ==
    \/ \E path \in Paths, coro \in Callbacks, t \in StreamTypes :
          StartStreamSocket(path, coro, t)
    \/ \E coro \in Callbacks :
          StartArbitrarySocket("FSTREAM_URL", PathTrade, coro)
    \/ \E k \in Paths : StopSocket(k)
    \/ \E o \in Orders(Keys(conns)) : Close(o)
    \/ \E c \in ConnIds : Connected(c)
    \/ \E c \in ConnIds : ConnectError(c, MaxFails)
    \/ \E c \in ConnIds : Closed(c, MaxFails)
    \/ \E c \in ConnIds : Cancelled(c)

SpecReg == Init /\ [][NextReg]_vars

\* one stream from its start to its stop, with everything its task can meet
NextConn ==
    \/ \E coro \in Callbacks, t \in StreamTypes :
          /\ ~ws[1].used
          /\ StartStreamSocket(PathTrade, coro, t)
    \/ StopSocket(PathTrade)
    \/ \E c \in ConnIds : Connected(c)
    \/ \E c \in ConnIds : ConnectError(c, MaxFails)
    \/ \E c \in ConnIds, evt \in Frames : Frame(c, evt)
    \/ \E c \in ConnIds : Timeout(c)
    \/ \E c \in ConnIds : Pong(c)
    \/ \E c \in ConnIds : Closed(c, MaxFails)
    \/ \E c \in ConnIds : Cancelled(c)

SpecConn == Init /\ [][NextConn]_vars

\* one stream whose transport may fail MAX_RECONNECTS times in a row
NextCeiling ==
    \/ \E coro \in Callbacks, t \in StreamTypes :
          /\ ~ws[1].used
          /\ StartStreamSocket(PathTrade, coro, t)
    \/ \E c \in ConnIds : Connected(c)
    \/ \E c \in ConnIds : ConnectError(c, MAX_RECONNECTS)
    \/ \E c \in ConnIds : Closed(c, MAX_RECONNECTS)

SpecCeiling == Init /\ [][NextCeiling]_vars

\* SpecConn with the event loop's guarantee: a task whose await can complete
\* is resumed
TaskNext(c) ==
    \/ Connected(c)
    \/ ConnectError(c, MaxFails)
    \/ \E evt \in Frames : Frame(c, evt)
    \/ Timeout(c)
    \/ Pong(c)
    \/ Closed(c, MaxFails)
    \/ Cancelled(c)

FairConn == SpecConn /\ \A c \in ConnIds : WF_vars(TaskNext(c))

\* the account sockets alone: starts, stops, renewals and the client's
\* answers, with connections that stay in ws.connect
NextSession ==
    \/ \E coro \in Callbacks : StartArbitrarySocket("STREAM_URL", PathMulti, coro)
    \/ \E t \in AccountTypes, coro \in Callbacks : StartAccountSocket(t, coro)
    \/ \E k \in ListenKeys \cup {PathMulti} : StopSocket(k)
    \/ \E p \in ProcIds, k \in ListenKeys : GetListenKey(p, k)
    \/ \E p \in ProcIds : ClientError(p)
    \/ \E p \in ProcIds : StreamClose(p)
    \/ \E t \in AccountTypes, p \in ProcIds : TimerFire(t, p)

SpecSession == Init /\ [][NextSession]_vars

\* _get_reconnect_wait on its own: an attempt count and a draw of random()
\* are chosen at the start and the function is applied to them
InitBackoff ==
    /\ conns = <<>>
    /\ listen_keys = [t \in SocketTypes |-> None]
    /\ timers = [t \in SocketTypes |-> "None"]
    /\ stray = [t \in SocketTypes |-> 0]
    /\ account_callbacks = [t \in SocketTypes |-> "none"]
    /\ ws = [c \in ConnIds |-> Fresh]
    /\ procs = [p \in ProcIds |-> Idle]
    /\ \E n \in 0..MaxAttempts, r \in 0..(RandomSteps - 1) :
          res = [op |-> "none", ret |-> 0, created |-> FALSE,
                 attempts |-> n, random |-> r]

GetReconnectWait ==
    /\ res.op = "none"
    /\ res' = [res EXCEPT !.op = "_get_reconnect_wait",
                          !.ret = get_reconnect_wait(res.attempts, res.random)]
    /\ UNCHANGED <<conns, listen_keys, timers, stray, account_callbacks, ws, procs>>

NextBackoff == GetReconnectWait

SpecBackoff == InitBackoff /\ [][NextBackoff]_vars

\* the book ticker streams of the spot and of the futures endpoint
NextEndpoint ==
    \/ \E path \in Paths, coro \in Callbacks, t \in BookTickerTypes :
          StartBookTickerSocket(path, coro, t)
    \/ \E k \in Paths : StopSocket(k)
    \/ \E c \in ConnIds : Connected(c)
    \/ \E c \in ConnIds : ConnectError(c, MaxFails)
    \/ \E c \in ConnIds : Closed(c, MaxFails)
    \/ \E c \in ConnIds : Cancelled(c)

SpecEndpoint == Init /\ [][NextEndpoint]_vars

\* two account sockets side by side, the user and the margin stream, each
\* with the listen keys its own client call hands out; of the client's
\* calls *_stream_close can raise
NextClasses ==
    \/ \E t \in ClassTypes, coro \in Callbacks : StartAccountSocket(t, coro)
    \/ \E k \in ClassKeys : StopSocket(k)
    \/ \E p \in ProcIds : \E k \in KeysOf(procs[p].socket_type) :
          GetListenKey(p, k)
    \/ \E p \in ProcIds : procs[p].pc = "release" /\ ClientError(p)
    \/ \E p \in ProcIds : StreamClose(p)
    \/ \E t \in ClassTypes, p \in ProcIds : TimerFire(t, p)

SpecClasses == Init /\ [][NextClasses]_vars

(***************************************************************************)
(* Properties                                                              *)
(***************************************************************************)
\* C1: when a keepalive run obtains a listen key that differs from the one
\* its socket type holds, and the connection keyed by the old one is
\* registered, the run unregisters the old connection and, once it has
\* returned, the new key's connection is registered: the two are never
\* registered together.
C1_RotationSwapsConnection ==
    [][\A p \in ProcIds \ {Caller}, k \in ListenKeys :
          LET old == listen_keys[procs[p].socket_type] IN
          ( /\ procs[p].op = "keepalive"
            /\ GetListenKey(p, k)
            /\ old # None /\ old # k
            /\ old \in Keys(conns) )
          => /\ old \notin Keys(conns')
             /\ procs'[p] = Idle => k \in Keys(conns')]_vars

\* C2: once cancel() was called on a connection it opens no transport, does
\* not reconnect and hands nothing to its callback.
C2_CancelIsTerminal ==
    [][\A c \in ConnIds :
          ws[c].cancelled
          => /\ ws'[c].opens = ws[c].opens
             /\ ws'[c].reconnects = ws[c].reconnects
             /\ ws'[c].handled = ws[c].handled
             /\ ws'[c].pc = "connecting" => ws[c].pc = "connecting"]_vars

\* C3: a connection that met a transport failure (fewer than the ceiling,
\* MaxFails < MAX_RECONNECTS) and was not cancelled is eventually Open again.
C3_EventuallyOpenAgain ==
    \A c \in ConnIds :
        (ws[c].used /\ ws[c].fails > 0 /\ ~ws[c].cancelled)
            ~> (Open(ws[c]) \/ ws[c].cancelled)

\* C4: a start of a stream whose key is registered leaves the registry and
\* every connection object as they were: no object is built, no task started.
C4_DuplicateStartChangesNothing ==
    [][\A path \in Paths, coro \in Callbacks :
          ( /\ path \in Keys(conns)
            /\ \/ \E t \in StreamTypes : StartStreamSocket(path, coro, t)
               \/ \E d \in Domains : StartArbitrarySocket(d, path, coro) )
          => conns' = conns /\ ws' = ws]_vars

\* a start of a registered key has returned
C4_Witness ==
    /\ res.op \in {"start_stream", "start_arbitrary"}
    /\ ~res.created
    /\ PathTrade \in Keys(conns)

\* C5: a start call that returned did register a connection exactly when it
\* returned something else than False.
C5_ReturnTellsWhetherStarted ==
    (res.op \in {"start_stream", "start_arbitrary", "start"} /\ res.ret # Raised)
        => (res.created <=> res.ret # False)

\* C6: the attempt counter never exceeds MAX_RECONNECTS, and a connection that
\* met MAX_RECONNECTS transport failures in a row has stopped for good.
C6_CeilingStopsReconnects ==
    \A c \in ConnIds :
        /\ ws[c].reconnects <= MAX_RECONNECTS
        /\ ws[c].fails >= MAX_RECONNECTS => ws[c].pc = "done"

\* C7: an idle timeout of an Open connection sends one ping and changes
\* nothing else of the connection (same transport, same counters, still
\* Open), and the ping's return takes the task back to waiting for a frame.
C7_TimeoutPingsOnce ==
    [][\A c \in ConnIds :
          /\ Timeout(c) => /\ ws'[c] = [ws[c] EXCEPT !.pc = "ping",
                                                     !.pings = @ + 1]
                           /\ Open(ws'[c])
          /\ Pong(c) => ws'[c] = [ws[c] EXCEPT !.pc = "recv"]]_vars

\* a connection is sending the ping of an idle timeout
C7_Witness ==
    \E c \in ConnIds : Open(ws[c]) /\ ws[c].pc = "ping" /\ ws[c].pings = 1

\* C8: a frame that does not decode is dropped (nothing handed to the
\* callback, the connection as it was but for the frame's arrival), and a
\* frame that decodes is handed to the callback, whatever came before it.
C8_BadFrameDiscarded ==
    [][\A c \in ConnIds, evt \in Frames :
          Frame(c, evt)
          => IF json_loads(evt).ok
             THEN /\ ws'[c].handled = Append(ws[c].handled, json_loads(evt).obj)
                  /\ Open(ws'[c])
             ELSE /\ ws'[c] = [ws[c] EXCEPT !.frames = Append(@, evt),
                                            !.fails = 0]
                  /\ Open(ws'[c])]_vars

\* a frame that decodes was handed over after one that does not was dropped
C8_Witness ==
    \E c \in ConnIds :
        /\ ws[c].frames = <<"{", "1">>
        /\ ws[c].handled = <<1>>
        /\ Open(ws[c])

\* C9: a connection object is registered exactly when its task has not
\* stopped (a cancellation on its way counts as stopped).
C9_RegisteredIffRunning ==
    \A c \in ConnIds :
        ws[c].used
        => (c \in Ids(conns) <=> (ws[c].pc # "done" /\ ~ws[c].must_cancel))

\* C10: a socket type holds a listen key exactly when a connection keyed by
\* that listen key is registered.
C10_TokenIffConnection ==
    /\ \A t \in SocketTypes :
          listen_keys[t] # None => listen_keys[t] \in Keys(conns)
    /\ \A k \in ListenKeys :
          k \in Keys(conns) => \E t \in SocketTypes : listen_keys[t] = k

\* C11: when *_stream_close raises in a stop_socket or a close, the socket
\* type's listen key is cleared and its timer cancelled all the same, and a
\* close still leaves no connection registered.
C11_ReleaseFailureStillCleans ==
    [][\A p \in ProcIds :
          ( /\ procs[p].pc = "release"
            /\ procs[p].op \in {"stop", "close"}
            /\ ClientError(p) )
          => LET t == TypeOrder[procs[p].idx] IN
             /\ listen_keys'[t] = None
             /\ timers'[t] = "None"
             /\ procs[p].op = "close" => conns' = <<>>]_vars

\* C12: when *_get_listen_key raises in a start_*_socket call, the call
\* raises and the registry, listen keys, callbacks, timers and connection
\* objects are as they were; the call itself changed none of them before.
C12_AcquireFailureChangesNothing ==
    [][/\ \A p \in ProcIds :
             ( /\ procs[p].op = "start"
               /\ procs[p].pc = "acquire"
               /\ ClientError(p) )
             => /\ UNCHANGED <<conns, listen_keys, timers, stray,
                               account_callbacks, ws>>
                /\ procs'[p] = Idle
                /\ res' = [op |-> "start", ret |-> Raised, created |-> FALSE]
       /\ \A t \in AccountTypes, coro \in Callbacks :
             StartAccountSocket(t, coro)
             => UNCHANGED <<conns, listen_keys, timers, stray,
                            account_callbacks, ws>>]_vars

\* a start_user_socket raised while a user socket was running: its listen
\* key, connection and timer are still there
C12_Witness ==
    /\ res = [op |-> "start", ret |-> Raised, created |-> FALSE]
    /\ listen_keys["user"] = TokA
    /\ TokA \in Keys(conns)
    /\ timers["user"] = "armed"

C14_DispatchInOrder ==
    [][\A c \in ConnIds :
          /\ ws'[c].handled = Decoded(ws'[c].frames)
          /\ \A evt \in Frames :
                Frame(c, evt) => ws'[c].pc = "recv" /\ Open(ws'[c])]_vars

\* two frames that decode, with one that does not in between, were received
C14_Witness ==
    \E c \in ConnIds :
        /\ ws[c].frames = <<"2", "{", "1">>
        /\ ws[c].handled = <<2, 1>>

\* C15: a stop_socket(key) of a key that is not registered changes nothing
\* (registry, listen keys, callbacks, timers, connection objects) and
\* releases no listen key; of a registered key it calls cancel() on the
\* connection under the key and removes that key and no other, and its
\* resumption after *_stream_close touches neither registry nor connections.
C15_StopRemovesOnlyItsKey ==
    [][/\ \A k \in ConnKeys :
             StopSocket(k)
             => IF k \notin Keys(conns)
                THEN /\ UNCHANGED <<conns, listen_keys, timers, stray,
                                    account_callbacks, ws>>
                     /\ procs'[Caller] = Idle
                ELSE /\ ws'[IdOf(conns, k)].cancelled
                     /\ \A c \in ConnIds \ {IdOf(conns, k)} : ws'[c] = ws[c]
                     /\ Keys(conns') = Keys(conns) \ {k}
                     /\ conns' = Del(conns, k)
       /\ (procs[Caller].op = "stop" /\ StreamClose(Caller))
             => conns' = conns /\ ws' = ws]_vars

\* the listen key's connection was stopped and its listen key released while
\* another key, which shares the prefix, stayed registered
C15_Witness ==
    /\ res.op = "stop"
    /\ res.ret = None
    /\ PathMulti \in Keys(conns)
    /\ TokA \notin Keys(conns)
    /\ \E c \in ConnIds : ws[c].path = TokA /\ ws[c].cancelled
    /\ listen_keys["user"] = None

\* C16: _get_reconnect_wait(n) is at least 1 and at most
\* 1 + min(MAX_RECONNECT_SECONDS, 2^n - 1) for every n >= 0 and every draw of
\* random(): it is 1 for n = 0 and 1 or 2 for every n >= 1.
C16_BackoffWithinBand ==
    res.op = "_get_reconnect_wait"
    => /\ res.ret >= 1
       /\ res.ret <= 1 + Min(MAX_RECONNECT_SECONDS, 2 ^ res.attempts - 1)
       /\ res.attempts = 0 => res.ret = 1
       /\ res.attempts >= 1 => res.ret \in {1, 2}

\* the largest attempt count with a draw in the upper half gave a wait of 2
C16_Witness ==
    /\ res.op = "_get_reconnect_wait"
    /\ res.attempts = MaxAttempts
    /\ 2 * res.random > RandomSteps
    /\ res.ret = 2

\* C17: a stop_socket of a registered key that has a socket type's listen key
\* as its prefix (the key is at least as long as the listen key) cancels that
\* type's timer and awaits *_stream_close once, with that listen key, and
\* when the call has returned the type's listen key is None and no type was
\* released twice; a stop_socket of a registered key that has no type's
\* listen key as prefix awaits no *_stream_close.
C17_StopTearsSessionDown ==
    [][/\ \A k \in ConnKeys :
             (StopSocket(k) /\ k \in Keys(conns))
             => LET owners ==
                      {i \in 1..Len(TypeOrder) :
                          LET tok == listen_keys[TypeOrder[i]] IN
                          /\ tok # None
                          /\ StrLen(k) >= StrLen(tok)
                          /\ Slice(k, StrLen(tok)) = tok}
                IN IF owners = {}
                   THEN /\ procs'[Caller] = Idle
                        /\ UNCHANGED <<listen_keys, timers, stray>>
                   ELSE /\ procs'[Caller].pc = "release"
                        /\ procs'[Caller].idx \in owners
                        /\ \A j \in owners : procs'[Caller].idx <= j
                        /\ procs'[Caller].tok =
                              listen_keys[TypeOrder[procs'[Caller].idx]]
                        /\ timers'[TypeOrder[procs'[Caller].idx]] = "None"
       /\ (procs[Caller].op = "stop" /\ StreamClose(Caller))
             => /\ listen_keys'[TypeOrder[procs[Caller].idx]] = None
                /\ procs'[Caller].pc = "release"
                      => procs'[Caller].idx > procs[Caller].idx
                /\ procs'[Caller] = Idle => res'.ret = None]_vars

\* the stop of a composite key (listen key plus suffix) released the user
\* listen key; the connection keyed by the listen key itself is registered
C17_Witness ==
    /\ res.op = "stop"
    /\ res.ret = None
    /\ listen_keys["user"] = None
    /\ timers["user"] = "None"
    /\ TokA \in Keys(conns)
    /\ PathMulti \notin Keys(conns)
    /\ \E c \in ConnIds : ws[c].path = PathMulti /\ ws[c].cancelled

\* C18: when a keepalive run gets the listen key its socket type already
\* holds, the registry, the connection objects, the listen keys and the
\* callbacks stay as they were, the run ends without awaiting
\* *_stream_close, and the socket type has exactly one pending timer handle
\* more than before, the new one held by _timers.
C18_SameKeyIsHeartbeat ==
    [][\A p \in ProcIds \ {Caller}, k \in ListenKeys :
          ( /\ procs[p].op = "keepalive"
            /\ GetListenKey(p, k)
            /\ k = listen_keys[procs[p].socket_type] )
          => LET t == procs[p].socket_type
                 before == stray[t] + (IF timers[t] \in Pending THEN 1 ELSE 0)
                 after == stray'[t] + (IF timers'[t] \in Pending THEN 1 ELSE 0)
             IN /\ UNCHANGED <<conns, ws, listen_keys, account_callbacks>>
                /\ procs'[p] = Idle
                /\ timers'[t] = "rearmed"
                /\ after = before + 1
                /\ \A u \in SocketTypes \ {t} :
                      timers'[u] = timers[u] /\ stray'[u] = stray[u]]_vars

\* a keepalive with an unchanged key re-armed the timer of a running user
\* socket
C18_Witness ==
    /\ timers["user"] = "rearmed"
    /\ listen_keys["user"] = TokA
    /\ TokA \in Keys(conns)
    /\ \A p \in ProcIds : procs[p] = Idle

\* C19: _reconnects is never negative, is 0 whenever the connection is Open,
\* is 0 after every ws.connect that succeeded, and is one more than before
\* after every attempt that failed or was terminated: a ws.connect that
\* raised, a transport closed or failing while the connection was Open.
C19_AttemptCounter ==
    [][\A c \in ConnIds :
          /\ ws'[c].reconnects >= 0
          /\ Open(ws'[c]) => ws'[c].reconnects = 0
          /\ Connected(c) => ws'[c].reconnects = 0
          /\ Closed(c, MaxFails) => ws'[c].reconnects = ws[c].reconnects + 1
          /\ ConnectError(c, MaxFails)
                => ws'[c].reconnects = ws[c].reconnects + 1]_vars

\* C20: in every state a connection has at most one task in ws.connect or
\* in the receive loop and at most one task holding a transport, _socket is
\* set only while a task holds one, and a ws.connect returns a transport
\* only when no task of the connection holds one and the task it returns to
\* is the only one, also when stop_socket and transport failures interleave.
C20_OneLoopOneTransport ==
    [][\A c \in ConnIds :
          /\ ws'[c].loops <= 1
          /\ ws'[c].transports <= 1
          /\ ws'[c].transports <= ws'[c].loops
          /\ ws'[c].socket => ws'[c].transports = 1
          /\ Connected(c) => ws[c].transports = 0 /\ ws[c].loops = 1]_vars

\* a connection is Open for the third time, after its transport failed once
\* and stop_socket cancelled it once
C20_Witness ==
    \E c \in ConnIds :
        /\ ws[c].cancelled
        /\ ws[c].fails = 1
        /\ ws[c].opens = 3
        /\ Open(ws[c])
        /\ ws[c].loops = 1
        /\ ws[c].transports = 1

\* C21: a keepalive run that was awaiting *_get_listen_key while stop_socket
\* stopped its socket type's stream leaves the type stopped: whichever of the
\* two finishes last, the type then has no listen key, no registered
\* connection under the key that was stopped and no pending timer handle.
C21_RenewalCannotResurrect ==
    [][/\ \A p \in ProcIds \ {Caller}, k \in ListenKeys :
             ( /\ procs[p].op = "keepalive"
               /\ listen_keys[procs[p].socket_type] = None
               /\ procs[Caller] = Idle
               /\ GetListenKey(p, k) )
             => LET t == procs[p].socket_type IN
                /\ listen_keys'[t] = None
                /\ timers'[t] \notin Pending
                /\ conns' = conns
       /\ ( /\ procs[Caller].op = "stop"
            /\ procs[Caller].conn_key = procs[Caller].tok
            /\ StreamClose(Caller)
            /\ procs'[Caller] = Idle
            /\ \A p \in ProcIds \ {Caller} : procs[p] = Idle )
             => LET t == TypeOrder[procs[Caller].idx] IN
                /\ listen_keys'[t] = None
                /\ timers'[t] \notin Pending
                /\ procs[Caller].tok \notin Keys(conns')]_vars

\* C22: when the *_stream_close(listenKey=k) awaited inside a start of an
\* account socket (a start_*_socket call or a keepalive run that got a new
\* key) has returned, that start leaves no connection registered under k,
\* the key itself or a key that has k as its prefix: it starts none and
\* leaves none.
C22_NoConnectionUnderReleasedKey ==
    [][\A p \in ProcIds :
          (procs[p].op \in {"start", "keepalive"} /\ StreamClose(p))
          => \A i \in 1..Len(conns') :
                LET key == conns'[i].key
                    tok == procs[p].tok
                IN ~(StrLen(key) >= StrLen(tok) /\ Slice(key, StrLen(tok)) = tok)]_vars

\* C23: a keepalive run whose *_get_listen_key raised leaves renewal going:
\* if its socket type holds a listen key after the failure, a timer handle
\* of that type is pending or another keepalive run of that type is under
\* way.
C23_RenewalSurvivesFailure ==
    [][\A p \in ProcIds \ {Caller} :
          ( /\ procs[p].op = "keepalive"
            /\ procs[p].pc = "acquire"
            /\ ClientError(p) )
          => LET t == procs[p].socket_type IN
             listen_keys'[t] # None
             => \/ timers'[t] \in Pending
                \/ stray'[t] > 0
                \/ \E q \in ProcIds :
                      procs'[q].op = "keepalive" /\ procs'[q].socket_type = t]_vars

\* C24: in every state a socket type has at most one pending timer handle:
\* the one _timers holds, with none that was armed earlier still waiting to
\* fire.
C24_OneTimerPerType ==
    \A t \in SocketTypes :
        stray[t] + (IF timers[t] \in Pending THEN 1 ELSE 0) <= 1

\* C25: after a book ticker start that returned a key, the connection
\* registered under that key has the path asked for and the endpoint of the
\* socket type asked for.
C25_KeyNamesRequestedEndpoint ==
    (res.op = "start_book_ticker" /\ res.ret # False)
    => /\ res.ret \in Keys(conns)
       /\ ws[IdOf(conns, res.ret)].path = res.ret
       /\ ws[IdOf(conns, res.ret)].ws_domain =
             socket_type_url_mapping(res.socket_type)

====
